---- MODULE Spec2Model ----
(***************************************************************************)
(* Model of photo_renamer (src/bin/renamer.rs): the rename/copy engine,    *)
(* its processing ledger (SQLite table "files") and the rebase operation.  *)
(*                                                                         *)
(* Strings are sequences of one-character strings, so that lower-casing,   *)
(* prefix tests, SQL LIKE, replace() and the filename regex are computed   *)
(* character by character as the code computes them.  The target platform  *)
(* is a Unix one: MAIN_SEPARATOR_STR is "/" and the file system is case    *)
(* sensitive.                                                              *)
(***************************************************************************)
EXTENDS Integers, Sequences, FiniteSets, Bags, TLC

(***************************************************************************)
(* Option<T>: None is the empty set, Some(v) the singleton {v}.            *)
(***************************************************************************)
None == {}
Some(v) == {v}
Unwrap(o) == CHOOSE v \in o : TRUE

(***************************************************************************)
(* Characters and strings.                                                 *)
(***************************************************************************)
UpperChars == <<"A","B","C","D","E","F","G","H","I","J","K","L","M",
                "N","O","P","Q","R","S","T","U","V","W","X","Y","Z">>
LowerChars == <<"a","b","c","d","e","f","g","h","i","j","k","l","m",
                "n","o","p","q","r","s","t","u","v","w","x","y","z">>
DigitChars == <<"0","1","2","3","4","5","6","7","8","9">>

\* the lower-case letter of each upper-case letter
LowerOf == [c \in {UpperChars[i] : i \in 1..26} |->
               LowerChars[CHOOSE i \in 1..26 : UpperChars[i] = c]]

\* char::to_lowercase (ASCII)
LowerChar(c) == IF c \in DOMAIN LowerOf THEN LowerOf[c] ELSE c

\* the value of each decimal digit
DigitOf == [c \in {DigitChars[i] : i \in 1..10} |->
               (CHOOSE i \in 1..10 : DigitChars[i] = c) - 1]

IsDigit(c) == c \in DOMAIN DigitOf
DigitVal(c) == DigitOf[c]

\* str::to_lowercase
to_lowercase(s) == [i \in 1..Len(s) |-> LowerChar(s[i])]

\* str::starts_with
starts_with(s, p) == Len(p) <= Len(s) /\ SubSeq(s, 1, Len(p)) = p

\* str::ends_with
ends_with(s, p) == Len(p) <= Len(s) /\ SubSeq(s, Len(s) - Len(p) + 1, Len(s)) = p

\* whether p occurs in s at position i
OccursAt(s, p, i) == i + Len(p) - 1 <= Len(s) /\ SubSeq(s, i, i + Len(p) - 1) = p

\* str::contains
contains(s, p) == \E i \in 1..(Len(s) + 1) : OccursAt(s, p, i)

\* str::replace and SQLite's replace(X,Y,Z): every non-overlapping occurrence
\* of from, left to right; an empty pattern leaves the string as it is.
RECURSIVE ReplaceFrom(_, _, _, _)
ReplaceFrom(s, from, to, i) ==
    IF i > Len(s) THEN <<>>
    ELSE IF OccursAt(s, from, i)
      THEN to \o ReplaceFrom(s, from, to, i + Len(from))
      ELSE <<s[i]>> \o ReplaceFrom(s, from, to, i + 1)

replace(s, from, to) == IF from = <<>> THEN s ELSE ReplaceFrom(s, from, to, 1)

\* str::split(c): the pieces between the occurrences of the character c
RECURSIVE SplitFrom(_, _, _, _)
SplitFrom(s, c, i, cur) ==
    IF i > Len(s) THEN <<cur>>
    ELSE IF s[i] = c THEN <<cur>> \o SplitFrom(s, c, i + 1, <<>>)
    ELSE SplitFrom(s, c, i + 1, Append(cur, s[i]))

split(s, c) == SplitFrom(s, c, 1, <<>>)

\* position of the last occurrence of the character c in s, 0 when absent
LastIndexOf(s, c) ==
    IF \E i \in 1..Len(s) : s[i] = c
      THEN CHOOSE i \in 1..Len(s) : s[i] = c /\ \A j \in (i+1)..Len(s) : s[j] # c
      ELSE 0

\* decimal rendering of a natural number (i32::to_string)
RECURSIVE to_string(_)
to_string(n) ==
    IF n < 10 THEN <<DigitChars[n + 1]>>
    ELSE to_string(n \div 10) \o <<DigitChars[(n % 10) + 1]>>

\* zero-padded decimal of width w
RECURSIVE Pad(_, _)
Pad(n, w) == IF w = 0 THEN <<>> ELSE Pad(n \div 10, w - 1) \o <<DigitChars[(n % 10) + 1]>>

\* value of a string of decimal digits
RECURSIVE NumVal(_)
NumVal(s) == IF s = <<>> THEN 0 ELSE 10 * NumVal(SubSeq(s, 1, Len(s) - 1)) + DigitVal(s[Len(s)])

AllDigits(s, i, n) == i + n - 1 <= Len(s) /\ \A k \in i..(i + n - 1) : IsDigit(s[k])

(***************************************************************************)
(* std::path                                                               *)
(***************************************************************************)
MAIN_SEPARATOR_STR == <<"/">>

\* Path::file_name: the last component
file_name(path) == SubSeq(path, LastIndexOf(path, "/") + 1, Len(path))

\* Path::file_stem: the file name up to its last dot (a leading dot is no
\* extension separator)
file_stem(path) ==
    LET name == file_name(path)
        d == LastIndexOf(name, ".")
    IN  IF d <= 1 THEN name ELSE SubSeq(name, 1, d - 1)

\* Path::extension: None, or the text after the last dot of the file name
extension(path) ==
    LET name == file_name(path)
        d == LastIndexOf(name, ".")
    IN  IF d <= 1 THEN None ELSE Some(SubSeq(name, d + 1, Len(name)))

\* PathBuf::push of a relative component
push(dir, name) ==
    IF ends_with(dir, MAIN_SEPARATOR_STR) THEN dir \o name
    ELSE dir \o MAIN_SEPARATOR_STR \o name

\* the directory a path lies in
parent(path) ==
    LET d == LastIndexOf(path, "/")
    IN  IF d <= 1 THEN SubSeq(path, 1, d) ELSE SubSeq(path, 1, d - 1)

(***************************************************************************)
(* chrono::NaiveDateTime: <<year, month, day, hour, minute, second>>.      *)
(***************************************************************************)
IsLeapYear(y) == (y % 4 = 0 /\ y % 100 # 0) \/ y % 400 = 0

DaysInMonth(y, m) ==
    IF m = 2 THEN (IF IsLeapYear(y) THEN 29 ELSE 28)
    ELSE IF m \in {4, 6, 9, 11} THEN 30 ELSE 31

\* NaiveDateTime::format("%Y%m%d_%H%M%S")
format_datetime(t) ==
    Pad(t[1], 4) \o Pad(t[2], 2) \o Pad(t[3], 2) \o <<"_">> \o
    Pad(t[4], 2) \o Pad(t[5], 2) \o Pad(t[6], 2)

\* NaiveDateTime::parse_from_str(s, "%Y%m%d%H%M%S"): the fields have fixed
\* widths, nothing may be left over, and the fields must name a real
\* date and time of day (a second of 60 is taken as a leap second)
parse_from_str(s) ==
    IF Len(s) # 14 \/ ~AllDigits(s, 1, 14) THEN None
    ELSE LET y  == NumVal(SubSeq(s, 1, 4))
             mo == NumVal(SubSeq(s, 5, 6))
             d  == NumVal(SubSeq(s, 7, 8))
             h  == NumVal(SubSeq(s, 9, 10))
             mi == NumVal(SubSeq(s, 11, 12))
             se == NumVal(SubSeq(s, 13, 14))
         IN  IF /\ mo \in 1..12
                /\ d \in 1..DaysInMonth(y, mo)
                /\ h \in 0..23
                /\ mi \in 0..59
                /\ se \in 0..60
               THEN Some(<<y, mo, d, h, mi, se>>)
               ELSE None

(***************************************************************************)
(* Regex (\d{8})[-_]?(\d{6}): the leftmost match; the optional separator   *)
(* is greedy.  A match is <<group 0, group 1, group 2>>, as Captures holds *)
(* the whole match besides the two groups.                                 *)
(***************************************************************************)
RegexMatchAt(s, i) ==
    IF ~AllDigits(s, i, 8) THEN None
    ELSE IF i + 8 <= Len(s) /\ s[i + 8] \in {"-", "_"} /\ AllDigits(s, i + 9, 6)
      THEN Some(<<SubSeq(s, i, i + 14), SubSeq(s, i, i + 7), SubSeq(s, i + 9, i + 14)>>)
    ELSE IF AllDigits(s, i + 8, 6)
      THEN Some(<<SubSeq(s, i, i + 13), SubSeq(s, i, i + 7), SubSeq(s, i + 8, i + 13)>>)
    ELSE None

filename_regex_captures(s) ==
    IF \E i \in 1..Len(s) : RegexMatchAt(s, i) # None
      THEN RegexMatchAt(s, CHOOSE i \in 1..Len(s) :
                               /\ RegexMatchAt(s, i) # None
                               /\ \A j \in 1..(i - 1) : RegexMatchAt(s, j) = None)
      ELSE None

\* Captures::len: the number of groups, the whole match included
captures_len(c) == Len(c)

\* Captures::get(i): group i, counted from 0
captures_get(c, i) == IF i + 1 <= Len(c) THEN Some(c[i + 1]) ELSE None

\* extract_datetime_from_filename
extract_datetime_from_filename(file) ==
    LET filename == file_stem(file)
        captures == filename_regex_captures(filename)
    IN  IF captures # None /\ captures_len(Unwrap(captures)) = 1
          THEN LET first_capture  == captures_get(Unwrap(captures), 1)
                   second_capture == captures_get(Unwrap(captures), 2)
               IN  IF first_capture = None \/ second_capture = None THEN None
                   ELSE parse_from_str(Unwrap(first_capture) \o Unwrap(second_capture))
          ELSE None

(***************************************************************************)
(* SQLite's LIKE: % matches any run of characters, _ any one character,    *)
(* letters match without regard to case; there is no escape character.     *)
(***************************************************************************)
RECURSIVE LikeFrom(_, _, _, _)
LikeFrom(p, t, i, j) ==
    IF i > Len(p) THEN j > Len(t)
    ELSE IF p[i] = "%" THEN \E k \in j..(Len(t) + 1) : LikeFrom(p, t, i + 1, k)
    ELSE IF j > Len(t) THEN FALSE
    ELSE IF p[i] = "_" THEN LikeFrom(p, t, i + 1, j + 1)
    ELSE LowerChar(p[i]) = LowerChar(t[j]) /\ LikeFrom(p, t, i + 1, j + 1)

sql_like(text, pattern) == LikeFrom(pattern, text, 1, 1)

(***************************************************************************)
(* Scope filter.                                                           *)
(***************************************************************************)
SUPPORTED_EXIF_EXTENSIONS == {<<"j","p","g">>, <<"t","i","f","f">>, <<"j","p","e","g">>}
SUPPORTED_RAW_EXTENSIONS == {<<"d","n","g">>, <<"r","w","2">>, <<"r","a","w">>}
SUPPORTED_MOVIE_EXTENSIONS == {<<"m","p","4">>, <<"a","v","i">>, <<"m","p","g">>, <<"m","o","v">>}

ExtensionIn(file, exts) ==
    extension(file) # None /\ to_lowercase(Unwrap(extension(file))) \in exts

is_picture(file) == ExtensionIn(file, SUPPORTED_EXIF_EXTENSIONS)
is_raw(file) == ExtensionIn(file, SUPPORTED_RAW_EXTENSIONS)
is_movie(file) == ExtensionIn(file, SUPPORTED_MOVIE_EXTENSIONS)
file_in_scope(file) == is_picture(file) \/ is_raw(file) \/ is_movie(file)

\* _is_hidden, applied by the walk to every entry below a root
is_hidden(name) == starts_with(name, <<".">>)

\* get_sql_safe_filename
get_sql_safe_filename(file) == replace(file, <<"\\">>, <<"/">>)

(***************************************************************************)
(* The inputs: source trees, configurations and the output directories'    *)
(* prior content.                                                          *)
(***************************************************************************)
\* bound on the operations (rename or rebase invocations) of one behaviour
MaxRuns == 3

\* for counter in 0..99
CounterLimit == 99

T1 == <<2023, 1, 1, 12, 0, 0>>
T2 == <<2023, 1, 2, 8, 30, 0>>
M1 == <<2024, 5, 5, 10, 0, 0>>
M2 == <<2024, 5, 6, 11, 0, 0>>

\* a source file: its canonical path, what extract_timestamp_from_exif
\* yields for it and what extract_datetime_from_file_metadata yields
MediaFile(p, e, m) == [path |-> p, exif |-> e, mtime |-> m]

\* content of an output file that was there before the first run
PreExisting == <<"pre-existing">>

\* no file at all
NoFiles == [p \in {} |-> PreExisting]

\* the first n candidate names of timestamp T1 and extension jpg
FullNames(dir, n) ==
    {push(dir, format_datetime(T1) \o <<".">> \o <<"j","p","g">>)} \cup
    {push(dir, format_datetime(T1) \o <<".">> \o to_string(c) \o <<".">> \o <<"j","p","g">>) : c \in 1..(n - 1)}

RenamerConfig(roots, out, raw, excl) ==
    [root_paths |-> roots, output_path |-> out, raw_output_path |-> raw, exclusions |-> excl]

DefaultExclusions == <<<<"e","x","c","l","u","s","i","o","n","s">>, <<"o","u","t","p","u","t">>>>

Scenario(t, c, d, ds) == [tree |-> t, config |-> c, disk |-> d, dirs |-> ds]

\* two stems resolving to one timestamp, one with an upper-case extension;
\* no output directory yet
ScCollision ==
    Scenario(<<MediaFile(<<"/","a","/","x",".","j","p","g">>, Some(T1), Some(M1)),
               MediaFile(<<"/","a","/","y",".","J","P","G">>, Some(T1), Some(M2))>>,
             RenamerConfig(<<<<"/","a">>>>, <<"/","o","u","t">>, <<"/","r","a","w">>, DefaultExclusions),
             NoFiles, {})

\* the same, with 20230101_120000.jpg already in the output directory
ScPreExisting ==
    Scenario(<<MediaFile(<<"/","a","/","x",".","j","p","g">>, Some(T1), Some(M1)),
               MediaFile(<<"/","a","/","y",".","J","P","G">>, Some(T1), Some(M2))>>,
             RenamerConfig(<<<<"/","a">>>>, <<"/","o","u","t">>, <<"/","r","a","w">>, DefaultExclusions),
             [p \in FullNames(<<"/","o","u","t">>, 1) |-> PreExisting], {<<"/","o","u","t">>})

\* one stem under two roots, with two different EXIF dates
ScAmbiguous ==
    Scenario(<<MediaFile(<<"/","a","/","x",".","j","p","g">>, Some(T1), Some(M1)),
               MediaFile(<<"/","b","/","x",".","j","p","g">>, Some(T2), Some(M2))>>,
             RenamerConfig(<<<<"/","a">>, <<"/","b">>>>, <<"/","o","u","t">>, <<"/","r","a","w">>, DefaultExclusions),
             NoFiles, {<<"/","o","u","t">>})

\* a timestamp in the file name and no EXIF; a file with no usable
\* timestamp at all; a hidden file and an excluded one
ScFilename ==
    Scenario(<<MediaFile(<<"/","a","/","I","M","G","_","2","0","2","3","0","1","1","5","_","1","4","2","2","3","3",".","j","p","g">>, None, Some(M1)),
               MediaFile(<<"/","a","/","u",".","m","p","4">>, None, None),
               MediaFile(<<"/","a","/",".","h",".","j","p","g">>, Some(T2), Some(M2)),
               MediaFile(<<"/","a","/","o","u","t","p","u","t","/","o",".","j","p","g">>, Some(T2), Some(M2)),
               MediaFile(<<"/","a","/","n",".","t","x","t">>, None, Some(M2))>>,
             RenamerConfig(<<<<"/","a">>>>, <<"/","o","u","t">>, <<"/","r","a","w">>, DefaultExclusions),
             NoFiles, {})

\* an image that lends its EXIF date to its raw sibling; a live photo
ScSiblings ==
    Scenario(<<MediaFile(<<"/","a","/","y",".","j","p","g">>, Some(T1), Some(M1)),
               MediaFile(<<"/","a","/","y",".","d","n","g">>, None, Some(M2)),
               MediaFile(<<"/","a","/","M","V","I","M","G","_","7",".","j","p","g">>, None, Some(M1))>>,
             RenamerConfig(<<<<"/","a">>>>, <<"/","o","u","t">>, <<"/","r","a","w">>, DefaultExclusions),
             NoFiles, {})

\* every candidate name of T1 is taken
ScExhausted ==
    Scenario(<<MediaFile(<<"/","a","/","x",".","j","p","g">>, Some(T1), Some(M1)),
               MediaFile(<<"/","a","/","z",".","j","p","g">>, Some(T2), Some(M2))>>,
             RenamerConfig(<<<<"/","a">>>>, <<"/","o","u","t">>, <<"/","r","a","w">>, DefaultExclusions),
             [p \in FullNames(<<"/","o","u","t">>, CounterLimit) |-> PreExisting], {<<"/","o","u","t">>})

\* an output directory spelt with a capital letter, absent
ScUpperDir ==
    Scenario(<<MediaFile(<<"/","a","/","x",".","j","p","g">>, Some(T1), Some(M1)),
               MediaFile(<<"/","a","/","y",".","d","n","g">>, None, Some(M2))>>,
             RenamerConfig(<<<<"/","a">>>>, <<"/","O","u","t">>, <<"/","r","a","w">>, DefaultExclusions),
             NoFiles, {})

\* the same, beside a directory of the lower-case spelling
ScUpperDirBoth ==
    Scenario(<<MediaFile(<<"/","a","/","x",".","j","p","g">>, Some(T1), Some(M1)),
               MediaFile(<<"/","a","/","z",".","j","p","g">>, Some(T1), Some(M2))>>,
             RenamerConfig(<<<<"/","a">>>>, <<"/","O","u","t">>, <<"/","r","a","w">>, DefaultExclusions),
             NoFiles, {<<"/","o","u","t">>})

\* a root configured twice
ScRepeatedRoot ==
    Scenario(<<MediaFile(<<"/","a","/","x",".","j","p","g">>, Some(T1), Some(M1))>>,
             RenamerConfig(<<<<"/","a">>, <<"/","a">>>>, <<"/","o","u","t">>, <<"/","r","a","w">>, DefaultExclusions),
             NoFiles, {<<"/","o","u","t">>})

\* a path in which the text of the root occurs a second time
ScNested ==
    Scenario(<<MediaFile(<<"/","a","/","b","/","a","/","x",".","j","p","g">>, Some(T1), Some(M1))>>,
             RenamerConfig(<<<<"/","a">>>>, <<"/","o","u","t">>, <<"/","r","a","w">>, DefaultExclusions),
             NoFiles, {<<"/","o","u","t">>})

\* live-photo signals: a double extension .MP.jpg, and a file whose whole
\* stem is "mp"
ScLivePhoto ==
    Scenario(<<MediaFile(<<"/","a","/","p",".","M","P",".","j","p","g">>, Some(T1), Some(M1)),
               MediaFile(<<"/","a","/","m","p",".","j","p","g">>, Some(T2), Some(M2))>>,
             RenamerConfig(<<<<"/","a">>>>, <<"/","o","u","t">>, <<"/","r","a","w">>, DefaultExclusions),
             NoFiles, {<<"/","o","u","t">>})

\* a file where the directory above the output directory should be
ScDirBlocked ==
    Scenario(<<MediaFile(<<"/","a","/","x",".","j","p","g">>, Some(T1), Some(M1)),
               MediaFile(<<"/","a","/","y",".","d","n","g">>, None, Some(M2))>>,
             RenamerConfig(<<<<"/","a">>>>, <<"/","f","/","o","u","t">>, <<"/","r","a","w">>, DefaultExclusions),
             [p \in {<<"/","f">>} |-> PreExisting], {})

\* every candidate name of T1 is taken for the image, none for its raw
\* sibling
ScExhaustedSibling ==
    Scenario(<<MediaFile(<<"/","a","/","x",".","j","p","g">>, Some(T1), Some(M1)),
               MediaFile(<<"/","a","/","x",".","d","n","g">>, None, Some(M2))>>,
             RenamerConfig(<<<<"/","a">>>>, <<"/","o","u","t">>, <<"/","r","a","w">>, DefaultExclusions),
             [p \in FullNames(<<"/","o","u","t">>, CounterLimit) |-> PreExisting], {<<"/","o","u","t">>, <<"/","r","a","w">>})

Scenarios ==
    {ScCollision, ScPreExisting, ScAmbiguous, ScFilename, ScSiblings,
     ScExhausted, ScUpperDir, ScUpperDirBoth, ScRepeatedRoot, ScNested,
     ScLivePhoto, ScDirBlocked, ScExhaustedSibling}

\* the prefix pairs a rebase is invoked with
RebaseRoots == {<<<<"/","a">>, <<"/","b">>>>, <<<<"/","A","/">>, <<"/","c">>>>}
(***************************************************************************)
(* State.                                                                  *)
(***************************************************************************)
VARIABLES
    tree,          \* the source files below the roots, in walk order
    config,        \* RenamerConfig, as read from renamer.toml
    disk,          \* files outside the source tree: path -> content
    dirs,          \* directories outside the source tree
    db_exists,     \* whether the database file exists (with table "files")
    db_index,      \* whether the unique index unique_paths exists
    ledger,        \* table "files": rows <<filename, checksum>>, by rowid
    pc,            \* where the running process stands; "idle": none runs
    args,          \* RenamerArgs of the running process
    filenames,     \* process_files: stem -> paths of the stem
    remaining,     \* process_files: stems the for loop has not reached
    paths,         \* process_files: the group at hand
    idx,           \* process_files: position in the group at hand
    potential_dates, \* process_files: the EXIF dates found in the group
    errors,        \* process_files: the error lines
    successful_file_copy_count,
    pending,       \* the source copied and not yet inserted
    runs,          \* processes started so far
    snap,          \* disk, directories and database when the process started
    copied,        \* sources this process copied
    inserted,      \* filenames this process inserted
    last_copy,     \* the last fs::copy of this process
    report,        \* what the rebase logged: the row count, and its roots
    last,          \* the last process that ended
    prev,          \* the process that ended before it
    orphan,        \* the copy a terminated process left unrecorded
    insert_failed, \* whether an INSERT ever violated unique_paths
    dry            \* what the last rebase in test mode logged, and on which rows

vars == <<tree, config, disk, dirs, db_exists, db_index, ledger, pc, args,
          filenames, remaining, paths, idx, potential_dates, errors,
          successful_file_copy_count, pending, runs, snap, copied, inserted,
          last_copy, report, last, prev, orphan, insert_failed, dry>>

env_vars == <<tree, config>>
loop_vars == <<filenames, remaining, paths, idx, potential_dates, errors,
               successful_file_copy_count, pending>>

NoArgs == [sub_command |-> "none", test_mode |-> FALSE,
           original_file_root |-> <<>>, destination_file_root |-> <<>>]
NoProcess == [sub_command |-> "none", test_mode |-> FALSE, outcome |-> "none"]
NoFilenames == [s \in {} |-> <<>>]

(***************************************************************************)
(* File system.                                                            *)
(***************************************************************************)
IsFile(d, p) == p \in DOMAIN d
IsDir(ds, p) == p = <<"/">> \/ p \in ds

\* Path::exists
exists(d, ds, p) == IsFile(d, p) \/ IsDir(ds, p)

\* the path and the directories above it
Ancestors(p) == {SubSeq(p, 1, i - 1) : i \in {j \in 2..Len(p) : p[j] = "/"}} \cup {p}

\* fs::create_dir_all succeeds unless a file is in the way
create_dir_all_ok(d, p) == \A a \in Ancestors(p) : ~IsFile(d, a)
create_dir_all(ds, p) == ds \cup Ancestors(p)

\* fs::copy(from, to) needs the directory of to, and to not to be a directory;
\* it replaces whatever file there is at to
fs_copy_ok(ds, to) == IsDir(ds, parent(to)) /\ ~IsDir(ds, to)
fs_copy(d, from, to) == [p \in DOMAIN d \cup {to} |-> IF p = to THEN from ELSE d[p]]

\* File::create of the errors log (named by the wall clock) and its content
ErrorsLog == <<"e","r","r","o","r","s",".","l","o","g">>
write_errors_log(d, lines) == fs_copy(d, lines, ErrorsLog)

(***************************************************************************)
(* Ledger.                                                                 *)
(***************************************************************************)
Filenames(l) == {l[i][1] : i \in 1..Len(l)}

\* has_file_been_processed, looking the file name up instead of the path
has_file_been_processed_by_name(l, path) == file_name(path) \in Filenames(l)

\* has_file_been_processed: SELECT * FROM files WHERE filename = ?
has_file_been_processed(l, path) == get_sql_safe_filename(path) \in Filenames(l)

\* an INSERT that records the name of the file instead of its path
insert_file_name(l, path) == Append(l, <<file_name(path), file_name(path)>>)

\* INSERT INTO files VALUES (?, ?): refused by unique_paths when the filename
\* is there already
insert_ok(l, ix, path) == ~(ix /\ get_sql_safe_filename(path) \in Filenames(l))
insert(l, path) == Append(l, <<get_sql_safe_filename(path), get_sql_safe_filename(path)>>)

(***************************************************************************)
(* Stem grouper.                                                           *)
(***************************************************************************)
FileAt(t, p) == t[CHOOSE i \in 1..Len(t) : t[i].path = p]

\* whether the walk from root reaches the file: it lies below root and no
\* component below root is hidden
Walked(root, p) ==
    /\ starts_with(p, push(root, <<>>))
    /\ \A c \in {split(SubSeq(p, Len(push(root, <<>>)) + 1, Len(p)), "/")[i] :
                   i \in 1..Len(split(SubSeq(p, Len(push(root, <<>>)) + 1, Len(p)), "/"))} :
           ~is_hidden(c)

Excluded(cfg, p) == \E i \in 1..Len(cfg.exclusions) : contains(p, cfg.exclusions[i])

\* the paths pushed, in order: root by root, each in walk order
RECURSIVE EntriesFrom(_, _, _)
EntriesFrom(cfg, t, r) ==
    IF r > Len(cfg.root_paths) THEN <<>>
    ELSE SelectSeq([i \in 1..Len(t) |-> t[i].path],
                   LAMBDA p : /\ Walked(cfg.root_paths[r], p)
                              /\ file_in_scope(p)
                              /\ ~Excluded(cfg, p))
         \o EntriesFrom(cfg, t, r + 1)

\* get_all_filenames_in_scope
get_all_filenames_in_scope(cfg, t) ==
    LET entries == EntriesFrom(cfg, t, 1)
        stems == {file_stem(entries[i]) : i \in 1..Len(entries)}
    IN  [s \in stems |-> SelectSeq(entries, LAMBDA p : file_stem(p) = s)]

(***************************************************************************)
(* Timestamp resolver.                                                     *)
(***************************************************************************)
extract_timestamp_from_exif(t, p) == FileAt(t, p).exif
extract_datetime_from_file_metadata(t, p) == FileAt(t, p).mtime

\* the HashSet of the EXIF dates of a group
PotentialDates(t, ps) == UNION {extract_timestamp_from_exif(t, ps[i]) : i \in 1..Len(ps)}

\* process_files without the group step: every member on its own, from its
\* EXIF date, its file name, its modification time
ResolveDatePerFile(t, dates, p) ==
    IF extract_timestamp_from_exif(t, p) # None THEN extract_timestamp_from_exif(t, p)
    ELSE IF extract_datetime_from_filename(p) # None THEN extract_datetime_from_filename(p)
    ELSE extract_datetime_from_file_metadata(t, p)

\* the date process_files passes to copy_file_and_mark_as_processed for a
\* member that is not in the ledger: None when it logs an error instead
ResolveDate(t, dates, p) ==
    IF Cardinality(dates) = 1 THEN dates
    ELSE IF extract_datetime_from_filename(p) # None THEN extract_datetime_from_filename(p)
    ELSE extract_datetime_from_file_metadata(t, p)

(***************************************************************************)
(* Filename synthesizer.                                                   *)
(***************************************************************************)
has_mp_tag(source) ==
    LET parts == split(to_lowercase(file_name(source)), ".")
    IN  \E i \in 1..Len(parts) : parts[i] = <<"m","p">>

is_mvimg(source) == starts_with(to_lowercase(file_stem(source)), <<"m","v","i","m","g">>)

\* Vec::join(".")
RECURSIVE join(_, _)
join(components, sep) ==
    IF Len(components) = 0 THEN <<>>
    ELSE IF Len(components) = 1 THEN components[1]
    ELSE components[1] \o sep \o join(Tail(components), sep)

TargetDir(cfg, source) ==
    IF is_raw(source) THEN cfg.raw_output_path ELSE cfg.output_path

\* new_path of one loop iteration
NewPath(cfg, source, date, counter) ==
    LET filename_components ==
            <<format_datetime(date)>>
            \o (IF counter # 0 THEN <<to_string(counter)>> ELSE <<>>)
            \o (IF has_mp_tag(source) \/ is_mvimg(source) THEN <<<<"m","p">>>> ELSE <<>>)
            \o <<Unwrap(extension(source))>>
    IN  push(TargetDir(cfg, source), join(filename_components, <<".">>))

\* the loop written as for counter in 0..=99: one counter more
FirstFreeInclusive(cfg, d, ds, source, date) ==
    IF \E c \in 0..CounterLimit : ~exists(d, ds, NewPath(cfg, source, date, c))
      THEN Some(CHOOSE c \in 0..CounterLimit :
                   /\ ~exists(d, ds, NewPath(cfg, source, date, c))
                   /\ \A c2 \in 0..(c - 1) : exists(d, ds, NewPath(cfg, source, date, c2)))
      ELSE None

\* for counter in 0..99 { ... if new_path.exists() { continue; } ... }: the
\* first counter whose new_path does not exist, None when the loop runs out
FirstFree(cfg, d, ds, source, date) ==
    IF \E c \in 0..(CounterLimit - 1) : ~exists(d, ds, NewPath(cfg, source, date, c))
      THEN Some(CHOOSE c \in 0..(CounterLimit - 1) :
                   /\ ~exists(d, ds, NewPath(cfg, source, date, c))
                   /\ \A c2 \in 0..(c - 1) : exists(d, ds, NewPath(cfg, source, date, c2)))
      ELSE None

\* final_path
FinalPath(new_path) == to_lowercase(new_path)
(***************************************************************************)
(* Rebase maintainer.                                                      *)
(***************************************************************************)
\* the root as process_rebase passes it to SQL
NormalizeRoot(root) ==
    LET r == get_sql_safe_filename(root)
    IN  IF ends_with(r, MAIN_SEPARATOR_STR) THEN r ELSE r \o MAIN_SEPARATOR_STR

\* WHERE filename like ? with the parameter format!("{}%", source_root)
RowMatches(row, source_root) == sql_like(row[1], source_root \o <<"%">>)

\* a count of the rows that start with the root, character for character
select_count_by_prefix(l, source_root) ==
    Cardinality({i \in 1..Len(l) : starts_with(l[i][1], source_root)})

\* SELECT COUNT(*) FROM files WHERE filename like ?
select_count(l, source_root) ==
    Cardinality({i \in 1..Len(l) : RowMatches(l[i], source_root)})

\* UPDATE files SET filename = replace(filename, ?, ?) WHERE filename like ?
\* row by row in rowid order; with unique_paths a row whose new filename
\* another row holds at that moment fails the statement
RECURSIVE UpdateFrom(_, _, _, _, _, _)
UpdateFrom(rows, i, source_root, dest_root, ix, n) ==
    IF i > Len(rows) THEN [ok |-> TRUE, rows |-> rows, count |-> n]
    ELSE IF ~RowMatches(rows[i], source_root)
      THEN UpdateFrom(rows, i + 1, source_root, dest_root, ix, n)
    ELSE LET filename == replace(rows[i][1], source_root, dest_root)
         IN  IF ix /\ \E j \in 1..Len(rows) : j # i /\ rows[j][1] = filename
               THEN [ok |-> FALSE, rows |-> rows, count |-> n]
               ELSE UpdateFrom([rows EXCEPT ![i] = <<filename, rows[i][2]>>],
                               i + 1, source_root, dest_root, ix, n + 1)

update(l, source_root, dest_root, ix) == UpdateFrom(l, 1, source_root, dest_root, ix, 0)

(***************************************************************************)
(* Initial state: a source tree, a configuration, no database.             *)
(***************************************************************************)
Init ==
    /\ \E sc \in Scenarios :
          /\ tree = sc.tree
          /\ config = sc.config
          /\ disk = sc.disk
          /\ dirs = sc.dirs
    /\ db_exists = FALSE
    /\ db_index = FALSE
    /\ ledger = <<>>
    /\ pc = "idle"
    /\ args = NoArgs
    /\ filenames = NoFilenames
    /\ remaining = {}
    /\ paths = <<>>
    /\ idx = 0
    /\ potential_dates = {}
    /\ errors = <<>>
    /\ successful_file_copy_count = 0
    /\ pending = <<>>
    /\ runs = 0
    /\ snap = [disk |-> disk, dirs |-> dirs, ledger |-> <<>>, db_exists |-> FALSE]
    /\ copied = {}
    /\ inserted = {}
    /\ last_copy = None
    /\ report = None
    /\ last = NoProcess
    /\ prev = NoProcess
    /\ orphan = None
    /\ insert_failed = FALSE
    /\ dry = None

\* the for loop over the group moves on
NextMember ==
    IF idx < Len(paths)
      THEN /\ idx' = idx + 1
           /\ pc' = "member"
           /\ UNCHANGED <<paths, potential_dates>>
      ELSE /\ idx' = 0
           /\ pc' = "groups"
           /\ paths' = <<>>
           /\ potential_dates' = {}

\* an end of the process that lets an I/O error pass: the loop goes on
EndRunUnlessIoError(outcome) ==
    IF outcome = "io_error"
      THEN /\ NextMember
           /\ UNCHANGED <<args, filenames, remaining, errors,
                          successful_file_copy_count, pending, prev, last>>
      ELSE /\ pc' = "idle"
           /\ args' = NoArgs
           /\ filenames' = NoFilenames
           /\ remaining' = {}
           /\ paths' = <<>>
           /\ idx' = 0
           /\ potential_dates' = {}
           /\ errors' = <<>>
           /\ successful_file_copy_count' = 0
           /\ pending' = <<>>
           /\ prev' = last
           /\ last' = [sub_command |-> args.sub_command, test_mode |-> args.test_mode,
                       outcome |-> outcome]

(***************************************************************************)
(* The end of a process: its in-memory state is gone.                      *)
(***************************************************************************)
EndRun(outcome) ==
    /\ pc' = "idle"
    /\ args' = NoArgs
    /\ filenames' = NoFilenames
    /\ remaining' = {}
    /\ paths' = <<>>
    /\ idx' = 0
    /\ potential_dates' = {}
    /\ errors' = <<>>
    /\ successful_file_copy_count' = 0
    /\ pending' = <<>>
    /\ prev' = last
    /\ last' = [sub_command |-> args.sub_command, test_mode |-> args.test_mode,
                outcome |-> outcome]

StartRun(a) ==
    /\ pc = "idle"
    /\ runs < MaxRuns
    /\ runs' = runs + 1
    /\ args' = a
    /\ pc' = "get_db"
    /\ snap' = [disk |-> disk, dirs |-> dirs, ledger |-> ledger, db_exists |-> db_exists]
    /\ copied' = {}
    /\ inserted' = {}
    /\ last_copy' = None
    /\ report' = None
    /\ UNCHANGED <<env_vars, disk, dirs, db_exists, db_index, ledger, loop_vars,
                   last, prev, orphan, insert_failed, dry>>

\* run: the rename subcommand
process_rename(test_mode) ==
    StartRun([sub_command |-> "rename", test_mode |-> test_mode,
              original_file_root |-> <<>>, destination_file_root |-> <<>>])

\* run: the rebase subcommand
process_rebase(test_mode, original_file_root, destination_file_root) ==
    StartRun([sub_command |-> "rebase", test_mode |-> test_mode,
              original_file_root |-> original_file_root,
              destination_file_root |-> destination_file_root])

AfterGetDb == IF args.sub_command = "rename" THEN "walk" ELSE "rebase_exec"

\* get_db: open the database; when the file was not there, CREATE TABLE
get_db ==
    /\ pc = "get_db"
    /\ IF db_exists
         THEN /\ pc' = AfterGetDb
              /\ UNCHANGED <<db_exists, ledger>>
         ELSE /\ db_exists' = TRUE
              /\ ledger' = <<>>
              /\ pc' = "create_index"
    /\ UNCHANGED <<env_vars, disk, dirs, db_index, args, loop_vars, runs, snap, dry,
                   copied, inserted, last_copy, report, last, prev, orphan,
                   insert_failed>>

\* get_db: CREATE UNIQUE INDEX unique_paths
get_db_create_index ==
    /\ pc = "create_index"
    /\ db_index' = TRUE
    /\ pc' = AfterGetDb
    /\ UNCHANGED <<env_vars, disk, dirs, db_exists, ledger, args, loop_vars, runs,
                   snap, dry, copied, inserted, last_copy, report, last, prev, orphan,
                   insert_failed>>

\* process_rename: the walk, and the prologue of process_files
walk ==
    /\ pc = "walk"
    /\ filenames' = get_all_filenames_in_scope(config, tree)
    /\ remaining' = DOMAIN filenames'
    /\ errors' = <<>>
    /\ successful_file_copy_count' = 0
    /\ pc' = "groups"
    /\ UNCHANGED <<env_vars, disk, dirs, db_exists, db_index, ledger, args, paths,
                   idx, potential_dates, pending, runs, snap, dry, copied, inserted,
                   last_copy, report, last, prev, orphan, insert_failed>>

\* process_files: the next group, in the HashMap's order (any); a group whose
\* members are all in the ledger is passed over
next_group ==
    /\ pc = "groups"
    /\ \E stem \in remaining :
          /\ remaining' = remaining \ {stem}
          /\ IF \A i \in 1..Len(filenames[stem]) :
                     has_file_been_processed(ledger, filenames[stem][i])
               THEN UNCHANGED <<pc, paths, idx, potential_dates>>
               ELSE /\ paths' = filenames[stem]
                    /\ potential_dates' = PotentialDates(tree, filenames[stem])
                    /\ idx' = 1
                    /\ pc' = "member"
    /\ UNCHANGED <<env_vars, disk, dirs, db_exists, db_index, ledger, args,
                   filenames, errors, successful_file_copy_count, pending, runs,
                   snap, dry, copied, inserted, last_copy, report, last, prev, orphan,
                   insert_failed>>

\* process_files: after the last group, the errors log and the result
finish_process_files ==
    /\ pc = "groups"
    /\ remaining = {}
    /\ IF errors # <<>>
         THEN /\ disk' = write_errors_log(disk, errors)
              /\ EndRun("errors")
         ELSE /\ UNCHANGED disk
              /\ EndRun("ok")
    /\ UNCHANGED <<env_vars, dirs, db_exists, db_index, ledger, runs, snap, dry, copied,
                   inserted, last_copy, report, orphan, insert_failed>>

\* process_files: one member of the group, up to and including the fs::copy
\* of copy_file_and_mark_as_processed
process_member ==
    /\ pc = "member"
    /\ LET path == paths[idx]
           date == ResolveDate(tree, potential_dates, path)
           dir == TargetDir(config, path)
           make_dir == ~exists(disk, dirs, dir)
           dirs1 == IF make_dir THEN create_dir_all(dirs, dir) ELSE dirs
           free == FirstFree(config, disk, dirs1, path, Unwrap(date))
       IN  IF ~file_in_scope(path) \/ has_file_been_processed(ledger, path)
             THEN \* continue
                  /\ NextMember
                  /\ UNCHANGED <<disk, dirs, errors, successful_file_copy_count,
                                 pending, copied, last_copy, last, prev, args,
                                 filenames, remaining>>
           ELSE IF date = None
             THEN \* no datetime: one more error line
                  /\ errors' = Append(errors, path)
                  /\ NextMember
                  /\ UNCHANGED <<disk, dirs, successful_file_copy_count, pending,
                                 copied, last_copy, last, prev, args, filenames,
                                 remaining>>
           ELSE IF make_dir /\ ~create_dir_all_ok(disk, dir)
             THEN \* fs::create_dir_all(&new_path)?
                  /\ EndRun("io_error")
                  /\ UNCHANGED <<disk, dirs, copied, last_copy>>
           ELSE IF free = None
             THEN \* the loop runs out: Ok(())
                  /\ dirs' = dirs1
                  /\ successful_file_copy_count' = successful_file_copy_count + 1
                  /\ NextMember
                  /\ UNCHANGED <<disk, errors, pending, copied, last_copy, last,
                                 prev, args, filenames, remaining>>
           ELSE LET counter == Unwrap(free)
                    new_path == NewPath(config, path, Unwrap(date), counter)
                    final_path == FinalPath(new_path)
                IN  IF args.test_mode
                      THEN \* "Would have copied"
                           /\ dirs' = dirs1
                           /\ successful_file_copy_count' = successful_file_copy_count + 1
                           /\ NextMember
                           /\ UNCHANGED <<disk, errors, pending, copied, last_copy,
                                          last, prev, args, filenames, remaining>>
                    ELSE IF ~fs_copy_ok(dirs1, final_path)
                      THEN \* fs::copy(source_file, final_path)?
                           /\ dirs' = dirs1
                           /\ EndRun("io_error")
                           /\ UNCHANGED <<disk, copied, last_copy>>
                    ELSE /\ dirs' = dirs1
                         /\ disk' = fs_copy(disk, path, final_path)
                         /\ pending' = path
                         /\ pc' = "copied"
                         /\ copied' = copied \cup {path}
                         /\ last_copy' = Some([src |-> path, new_path |-> new_path,
                                               dst |-> final_path, counter |-> counter,
                                               date |-> Unwrap(date),
                                               dates |-> potential_dates,
                                               existed |-> IsFile(disk, final_path)])
                         /\ UNCHANGED <<errors, successful_file_copy_count, idx,
                                        paths, potential_dates, last, prev, args,
                                        filenames, remaining>>
    /\ UNCHANGED <<env_vars, db_exists, db_index, ledger, runs, snap, dry, inserted,
                   report, orphan, insert_failed>>

\* copy_file_and_mark_as_processed: the INSERT after the copy
insert_statement ==
    /\ pc = "copied"
    /\ IF insert_ok(ledger, db_index, pending)
         THEN /\ ledger' = insert(ledger, pending)
              /\ inserted' = inserted \cup {get_sql_safe_filename(pending)}
              /\ successful_file_copy_count' = successful_file_copy_count + 1
              /\ pending' = <<>>
              /\ NextMember
              /\ UNCHANGED <<insert_failed, last, prev, args, filenames, remaining,
                             errors>>
         ELSE /\ insert_failed' = TRUE
              /\ EndRun("db_error")
              /\ UNCHANGED <<ledger, inserted>>
    /\ UNCHANGED <<env_vars, disk, dirs, db_exists, db_index, runs, snap, dry, copied,
                   last_copy, report, orphan>>

\* process_rebase: the SELECT COUNT(*) of test mode, the UPDATE otherwise
rebase_statement ==
    /\ pc = "rebase_exec"
    /\ LET source_root == NormalizeRoot(args.original_file_root)
           dest_root == NormalizeRoot(args.destination_file_root)
           updated == update(ledger, source_root, dest_root, db_index)
       IN  IF args.test_mode
             THEN /\ report' = Some([rows |-> select_count(ledger, source_root),
                                      original_file_root |-> args.original_file_root,
                                      destination_file_root |-> args.destination_file_root])
                  /\ dry' = Some([rows |-> select_count(ledger, source_root),
                                   original_file_root |-> args.original_file_root,
                                   destination_file_root |-> args.destination_file_root,
                                   ledger |-> ledger])
                  /\ UNCHANGED ledger
                  /\ EndRun("ok")
           ELSE IF updated.ok
             THEN /\ ledger' = updated.rows
                  /\ report' = Some([rows |-> updated.count,
                                      original_file_root |-> args.original_file_root,
                                      destination_file_root |-> args.destination_file_root])
                  /\ EndRun("ok")
                  /\ UNCHANGED dry
           ELSE /\ UNCHANGED <<ledger, report, dry>>
                /\ EndRun("db_error")
    /\ UNCHANGED <<env_vars, disk, dirs, db_exists, db_index, runs, snap, copied,
                   inserted, last_copy, orphan, insert_failed>>

\* the process is terminated from outside
terminate ==
    /\ pc # "idle"
    /\ orphan' = IF pc = "copied"
                   THEN Some([src |-> pending, dst |-> Unwrap(last_copy).dst,
                              counter |-> Unwrap(last_copy).counter, run |-> runs])
                   ELSE orphan
    /\ EndRun("terminated")
    /\ UNCHANGED <<env_vars, disk, dirs, db_exists, db_index, ledger, runs, snap, dry,
                   copied, inserted, last_copy, report, insert_failed>>

Next ==
    \/ \E test_mode \in BOOLEAN : process_rename(test_mode)
    \/ \E test_mode \in BOOLEAN, roots \in RebaseRoots :
          process_rebase(test_mode, roots[1], roots[2])
    \/ get_db
    \/ get_db_create_index
    \/ walk
    \/ next_group
    \/ finish_process_files
    \/ process_member
    \/ insert_statement
    \/ rebase_statement
    \/ terminate

Spec == Init /\ [][Next]_vars
(***************************************************************************)
(* Properties.                                                             *)
(***************************************************************************)
\* a live rename run that went through every group
CompletedLive(p) ==
    p.sub_command = "rename" /\ ~p.test_mode /\ p.outcome \in {"ok", "errors"}

\* the process that runs, or the one that ended last, is one in test mode
InTestRun ==
    \/ pc # "idle" /\ args.test_mode
    \/ pc = "idle" /\ last.sub_command # "none" /\ last.test_mode

\* the timestamp a file name carries: the first match of 8 digits, an
\* optional - or _, and 6 digits, read as YYYYMMDDHHMMSS
FilenameTimestamp(p) ==
    LET c == filename_regex_captures(file_stem(p))
    IN  IF c = None THEN None ELSE parse_from_str(Unwrap(c)[2] \o Unwrap(c)[3])

\* the date of the per-file fallback chain: EXIF, file name, modification time
FallbackDate(p) ==
    IF extract_timestamp_from_exif(tree, p) # None THEN extract_timestamp_from_exif(tree, p)
    ELSE IF FilenameTimestamp(p) # None THEN FilenameTimestamp(p)
    ELSE extract_datetime_from_file_metadata(tree, p)

\* the files the walk hands to process_files, and the group of each
InScope == {p \in {tree[i].path : i \in 1..Len(tree)} :
               \E s \in DOMAIN get_all_filenames_in_scope(config, tree) :
                   \E i \in 1..Len(get_all_filenames_in_scope(config, tree)[s]) :
                       get_all_filenames_in_scope(config, tree)[s][i] = p}
GroupOf(p) == get_all_filenames_in_scope(config, tree)[file_stem(p)]

\* no timestamp tier of process_files succeeds for the file
Unresolvable(p) == ResolveDate(tree, PotentialDates(tree, GroupOf(p)), p) = None

\* C1: the path a live rename run passes to fs::copy does not exist at the
\* moment of the copy, whatever the case of the extension or of the output
\* directory: no output file is ever overwritten.
C1_NeverOverwrites ==
    \A c \in last_copy : ~c.existed

\* C2: a process in test mode leaves the files, the directories and the
\* ledger rows as they were when it started.
C2_DryRunPurity ==
    InTestRun => /\ disk = snap.disk
                 /\ dirs = snap.dirs
                 /\ ledger = snap.ledger

\* C3: a rename run that follows a completed live rename run (same tree,
\* same ledger, same configuration) copies no file and inserts no row: the
\* ledger and the output files stay as the first run left them.
C3_RenameIdempotent ==
    (\/ pc # "idle" /\ args.sub_command = "rename" /\ CompletedLive(last)
     \/ pc = "idle" /\ last.sub_command = "rename" /\ CompletedLive(prev))
    => /\ copied = {}
       /\ inserted = {}
       /\ last_copy = None
       /\ ledger = snap.ledger
       /\ \A p \in DOMAIN disk \ {ErrorsLog} : p \in DOMAIN snap.disk /\ disk[p] = snap.disk[p]

\* C3 witness: two live rename runs completed one after the other, the first
\* of which copied and recorded a file and reported an unresolvable one.
C3_Witness ==
    /\ pc = "idle"
    /\ CompletedLive(last) /\ CompletedLive(prev)
    /\ last.outcome = "errors" /\ prev.outcome = "errors"
    /\ Len(ledger) > 0
    /\ runs = 2

\* C4: a member of a group without a unique EXIF date is named from its own
\* EXIF date, else from the timestamp in its file name, else from its
\* modification time.
C4_PerFileFallbackOrder ==
    \A c \in last_copy :
        Cardinality(c.dates) # 1 => Some(c.date) = FallbackDate(c.src)

\* C5: extract_datetime_from_filename returns the timestamp a file name
\* carries, and a file without EXIF in a group without a unique EXIF date is
\* named from it.
C5_FilenameTimestampUsed ==
    \A c \in last_copy :
        (/\ Cardinality(c.dates) # 1
         /\ extract_timestamp_from_exif(tree, c.src) = None
         /\ FilenameTimestamp(c.src) # None)
        => /\ extract_datetime_from_filename(c.src) = FilenameTimestamp(c.src)
           /\ Some(c.date) = FilenameTimestamp(c.src)

\* a live rebase has just ended without an error
RebasedLive ==
    /\ pc = "idle"
    /\ last.sub_command = "rebase" /\ ~last.test_mode /\ last.outcome = "ok"
    /\ report # None

\* C6: a live rebase counts, and changes, exactly the rows whose filename
\* starts character for character with the normalized old prefix.
C6_RebaseSelectsByPrefix ==
    RebasedLive =>
        LET old == NormalizeRoot(Unwrap(report).original_file_root)
            hit == {i \in 1..Len(snap.ledger) : starts_with(snap.ledger[i][1], old)}
        IN  /\ Len(ledger) = Len(snap.ledger)
            /\ Unwrap(report).rows = Cardinality(hit)
            /\ \A i \in 1..Len(snap.ledger) : i \notin hit => ledger[i] = snap.ledger[i]

\* C7: a row a live rebase changes had the old prefix at its start and has
\* the new prefix in its place, the rest of the filename and the checksum
\* column being as before.
C7_RebaseRewritesPrefixOnly ==
    RebasedLive =>
        LET old == NormalizeRoot(Unwrap(report).original_file_root)
            new == NormalizeRoot(Unwrap(report).destination_file_root)
        IN  /\ Len(ledger) = Len(snap.ledger)
            /\ \A i \in 1..Len(snap.ledger) :
                  IF starts_with(snap.ledger[i][1], old)
                    THEN /\ ledger[i][1] = new \o SubSeq(snap.ledger[i][1], Len(old) + 1,
                                                         Len(snap.ledger[i][1]))
                         /\ ledger[i][2] = snap.ledger[i][2]
                    ELSE ledger[i][1] = snap.ledger[i][1] /\ ledger[i][2] = snap.ledger[i][2]

\* C8: no two rows of the ledger hold the same filename, and no INSERT of
\* copy_file_and_mark_as_processed violates unique_paths.
C8_LedgerUnique ==
    /\ \A i, j \in 1..Len(ledger) : i # j => ledger[i][1] # ledger[j][1]
    /\ ~insert_failed

\* C9: after a termination between the copy of a source and its INSERT, the
\* source has no row and the output file stays; the next live rename run
\* copies the source to another name with a higher counter, overwriting
\* nothing, and records it.
C9_OrphanNotReused ==
    \A o \in orphan :
        /\ (pc = "idle" /\ runs = o.run) =>
               /\ ~has_file_been_processed(ledger, o.src)
               /\ IsFile(disk, o.dst)
        /\ \A c \in last_copy :
               (runs = o.run + 1 /\ c.src = o.src) =>
                   /\ c.dst # o.dst
                   /\ ~c.existed
                   /\ c.counter > o.counter
        /\ (pc = "idle" /\ runs = o.run + 1 /\ CompletedLive(last)) =>
               /\ has_file_been_processed(ledger, o.src)
               /\ IsFile(disk, o.dst)
               /\ \E p \in DOMAIN disk : p # o.dst /\ disk[p] = o.src

\* C10: when the loop of a live rename run is through, the files without a
\* timestamp have no copy and no row and one error line each, every other
\* file in scope is copied and recorded, and the run ends in an error if
\* and only if there is an error line.
C10_ErrorsAccumulated ==
    /\ (pc = "groups" /\ remaining = {} /\ ~args.test_mode) =>
          /\ \A p \in InScope :
                IF Unresolvable(p)
                  THEN /\ ~has_file_been_processed(ledger, p)
                       /\ p \notin copied
                       /\ Cardinality({i \in 1..Len(errors) : errors[i] = p})
                            = Cardinality({i \in 1..Len(GroupOf(p)) : GroupOf(p)[i] = p})
                  ELSE has_file_been_processed(ledger, p)
          /\ \A i \in 1..Len(errors) : errors[i] \in InScope /\ Unresolvable(errors[i])
    /\ (pc = "idle" /\ last.sub_command = "rename" /\ last.outcome \in {"ok", "errors"}) =>
          (last.outcome = "errors" <=> \E p \in InScope : Unresolvable(p))

\* C11: when the EXIF dates of a group are exactly one date T, every member
\* of the group that is not in the ledger is handed to the copy with T, and
\* the file a live run copies it to is named from T, also when the member
\* has no EXIF date of its own: no member of such a group is named from its
\* file name or its modification time.
C11_GroupTimestampUnified ==
    /\ (/\ pc = "member"
        /\ Cardinality(potential_dates) = 1
        /\ ~has_file_been_processed(ledger, paths[idx]))
       => /\ potential_dates = PotentialDates(tree, GroupOf(paths[idx]))
          /\ ResolveDate(tree, potential_dates, paths[idx]) = potential_dates
    /\ \A c \in last_copy :
          Cardinality(PotentialDates(tree, GroupOf(c.src))) = 1
          => /\ Some(c.date) = PotentialDates(tree, GroupOf(c.src))
             /\ starts_with(file_name(c.dst), format_datetime(c.date) \o <<".">>)

\* C11 witness: a raw file without EXIF, copied and recorded under the date
\* of its sibling, which is neither its modification time nor in its name.
C11_Witness ==
    /\ pc = "idle"
    /\ CompletedLive(last)
    /\ \E c \in last_copy :
          /\ is_raw(c.src)
          /\ extract_timestamp_from_exif(tree, c.src) = None
          /\ extract_datetime_from_file_metadata(tree, c.src) # Some(c.date)
          /\ Some(c.date) = PotentialDates(tree, GroupOf(c.src))
          /\ Len(GroupOf(c.src)) = 2
          /\ has_file_been_processed(ledger, c.src)

\* a rename run in live mode that went through every group has just ended
RenamedLive == pc = "idle" /\ CompletedLive(last)

\* C12: a rename run changes the ledger only by appending the row of the
\* source it has just copied (the copy is on disk, the run is live, the
\* source had no row); it never removes or rewrites a row, and in test mode
\* it inserts nothing.  When a live run has gone through every group, it
\* has inserted one row for each file it copied.
C12_CopyThenRecord ==
    /\ [][(pc # "idle" /\ args.sub_command = "rename" /\ ledger' # ledger)
          => /\ pc = "copied"
             /\ ~args.test_mode
             /\ \E c \in last_copy :
                   c.src = pending /\ IsFile(disk, c.dst) /\ disk[c.dst] = pending
             /\ get_sql_safe_filename(pending) \notin Filenames(ledger)
             /\ ledger' = Append(ledger, <<get_sql_safe_filename(pending),
                                           get_sql_safe_filename(pending)>>)]_vars
    /\ []((InTestRun /\ (args.sub_command = "rename" \/ last.sub_command = "rename"))
             => inserted = {})
    /\ [](RenamedLive
             => /\ inserted = {get_sql_safe_filename(p) : p \in copied}
                /\ Len(ledger) = Len(snap.ledger) + Cardinality(copied)
                /\ SubSeq(ledger, 1, Len(snap.ledger)) = snap.ledger)

\* C12 witness: a live run that found a row in the ledger and added the rows
\* of the two files it copied.
C12_Witness ==
    /\ RenamedLive
    /\ Len(snap.ledger) >= 1
    /\ Cardinality(copied) = 2
    /\ Len(ledger) = Len(snap.ledger) + 2

\* the member at hand is about to be handed to the copy, with a date
HandedToCopy ==
    /\ pc = "member"
    /\ file_in_scope(paths[idx])
    /\ ~has_file_been_processed(ledger, paths[idx])
    /\ ResolveDate(tree, potential_dates, paths[idx]) # None

\* every candidate name of the source for the date exists: counters 0 to 98
AllNamesTaken(source, date) ==
    \A counter \in 0..(CounterLimit - 1) :
        exists(disk, dirs, NewPath(config, source, date, counter))

\* the process at hand is being terminated from outside
Terminated == pc' = "idle" /\ last'.outcome = "terminated"

\* C13: when all 99 candidate names of a member exist, the step that hands
\* it to the copy makes no copy and no insertion, appends no error line, and
\* the loop goes on with the next member or group; the member has no row
\* when the run is through, so a later run takes it up again.
C13_ExhaustedCounterNoOp ==
    [][(/\ HandedToCopy
        /\ AllNamesTaken(paths[idx], Unwrap(ResolveDate(tree, potential_dates, paths[idx])))
        /\ ~Terminated)
       => /\ disk' = disk
          /\ ledger' = ledger
          /\ errors' = errors
          /\ copied' = copied
          /\ inserted' = inserted
          /\ last_copy' = last_copy
          /\ pc' \in {"member", "groups"}
          /\ IF idx < Len(paths) THEN idx' = idx + 1 /\ paths' = paths
                                 ELSE pc' = "groups"
          /\ remaining' = remaining
          /\ ~has_file_been_processed(ledger', paths[idx])]_vars

\* C13 witness: after a live run that went through every group and ended
\* without an error, copying the other file, a second run is at the member
\* whose 99 names are all taken, which still has no row.
C13_Witness ==
    /\ runs = 2
    /\ CompletedLive(last) /\ last.outcome = "ok"
    /\ Len(ledger) = 1
    /\ HandedToCopy
    /\ AllNamesTaken(paths[idx], Unwrap(ResolveDate(tree, potential_dates, paths[idx])))

\* the file name ends in .mp.<ext>, in any letter case
HasMpDoubleExtension(source) ==
    ends_with(to_lowercase(file_name(source)),
              <<".","m","p",".">> \o to_lowercase(Unwrap(extension(source))))

\* the stem starts with mvimg, in any letter case
StemStartsMvimg(source) ==
    starts_with(to_lowercase(file_stem(source)), <<"m","v","i","m","g">>)

\* the dotted segments of the output name before the marker: the timestamp
\* and, after a collision, the counter
LeadSegments(c) ==
    <<format_datetime(c.date)>> \o
    (IF c.counter # 0 THEN <<to_string(c.counter)>> ELSE <<>>)

\* C14: the name of the file a live run writes is timestamp, counter if any,
\* "mp", extension when the source name ends in .mp.<ext> or its stem starts
\* with mvimg (any letter case), and timestamp, counter if any, extension
\* for every other source.
C14_LivePhotoMarker ==
    \A c \in last_copy :
        split(file_name(c.dst), ".") =
            LeadSegments(c)
            \o (IF HasMpDoubleExtension(c.src) \/ StemStartsMvimg(c.src)
                  THEN <<<<"m","p">>>> ELSE <<>>)
            \o <<to_lowercase(Unwrap(extension(c.src)))>>

\* the same, the marker being set as the code sets it: for a source of which
\* any dotted segment of the name is "mp"
MarkerAsCoded ==
    \A c \in last_copy :
        split(file_name(c.dst), ".") =
            LeadSegments(c)
            \o (IF (\E i \in 1..Len(split(to_lowercase(file_name(c.src)), ".")) :
                       split(to_lowercase(file_name(c.src)), ".")[i] = <<"m","p">>)
                   \/ StemStartsMvimg(c.src)
                  THEN <<<<"m","p">>>> ELSE <<>>)
            \o <<to_lowercase(Unwrap(extension(c.src)))>>

\* the member at hand is handed to the copy and the directory creation or
\* the file copy will fail: a file stands where the target directory or one
\* above it should be, or (live mode) the directory of the path handed to
\* fs::copy is missing or the path is a directory
IoFailure ==
    /\ HandedToCopy
    /\ LET path == paths[idx]
           date == Unwrap(ResolveDate(tree, potential_dates, path))
           dir == TargetDir(config, path)
           made == IF exists(disk, dirs, dir) THEN dirs ELSE dirs \cup Ancestors(dir)
           free == FirstFree(config, disk, made, path, date)
       IN  \/ /\ ~exists(disk, dirs, dir)
              /\ \E a \in Ancestors(dir) : IsFile(disk, a)
           \/ /\ ~args.test_mode
              /\ free # None
              /\ LET to == to_lowercase(NewPath(config, path, date, Unwrap(free)))
                 IN  ~IsDir(made, parent(to)) \/ IsDir(made, to)

\* C15: when the directory creation or the file copy fails for a member, the
\* run ends there with the error: no row is inserted for the member, the
\* files and the rows written so far stay as they are, and the rest of the
\* group and the groups not yet reached are left alone.
C15_IoFailureStopsRun ==
    [][(IoFailure /\ ~Terminated)
       => /\ pc' = "idle"
          /\ last'.outcome = "io_error"
          /\ ledger' = ledger
          /\ disk' = disk
          /\ ~has_file_been_processed(ledger', paths[idx])
          /\ copied' = copied
          /\ inserted' = inserted
          /\ remaining' = {} /\ paths' = <<>> /\ pending' = <<>>]_vars

\* C15 witness: a live run that had copied and recorded a file ended with an
\* I/O error at another one; the first file's copy and row are there, the
\* other has neither.
C15_Witness ==
    /\ pc = "idle"
    /\ last.sub_command = "rename" /\ ~last.test_mode /\ last.outcome = "io_error"
    /\ Cardinality(copied) = 1
    /\ Len(ledger) = 1
    /\ \A p \in copied : has_file_been_processed(ledger, p) /\ \E q \in DOMAIN disk : disk[q] = p
    /\ \E p \in InScope : ~has_file_been_processed(ledger, p) /\ ~Unresolvable(p)

\* the directory the configuration gives for the source
ConfiguredDir(source) ==
    IF to_lowercase(Unwrap(extension(source))) \in {<<"d","n","g">>, <<"r","w","2">>, <<"r","a","w">>}
      THEN config.raw_output_path
      ELSE config.output_path

\* a path with only the extension of its file name in lower case
WithLowerExtension(path) ==
    SubSeq(path, 1, Len(path) - Len(Unwrap(extension(path))))
    \o to_lowercase(Unwrap(extension(path)))

\* C16: the file a live run writes lies in the configured raw-output
\* directory when the source is a raw file (dng, rw2, raw) and in the
\* configured output directory otherwise, spelt as configured: it is the
\* directory that exists after the copy and the path that was tested for a
\* collision, with the extension in lower case and nothing else changed.
C16_TargetDirRouting ==
    \A c \in last_copy :
        /\ parent(c.dst) = ConfiguredDir(c.src)
        /\ parent(c.new_path) = ConfiguredDir(c.src)
        /\ c.dst = WithLowerExtension(c.new_path)

\* the same for the configurations whose directories are spelt in lower case
RoutingOfLowerCaseDirs ==
    (/\ config.output_path = to_lowercase(config.output_path)
     /\ config.raw_output_path = to_lowercase(config.raw_output_path))
    => C16_TargetDirRouting

\* the group at hand had, when the run started, members with a row and
\* members without
PartialGroup ==
    /\ \E i \in 1..Len(paths) : get_sql_safe_filename(paths[i]) \in Filenames(snap.ledger)
    /\ \E i \in 1..Len(paths) : get_sql_safe_filename(paths[i]) \notin Filenames(snap.ledger)

\* a live run leaves the group at hand
LeavesGroup ==
    pc \in {"member", "copied"} /\ pc' = "groups" /\ ~args.test_mode

\* C17: the loop passes over a group exactly when every member has a row; a
\* source that has a row is never copied; and when a live run leaves a group
\* of which some members had a row and others had none, the members that
\* had none and have a timestamp are copied and recorded, the others are
\* not copied.
C17_PartialGroup ==
    [][/\ (pc = "groups" /\ remaining' # remaining /\ ~Terminated)
          => \A stem \in remaining \ remaining' :
                (pc' = "groups") <=>
                \A i \in 1..Len(filenames[stem]) :
                    has_file_been_processed(ledger, filenames[stem][i])
       /\ (last_copy' # last_copy /\ last_copy' # None)
          => \A c \in last_copy' : ~has_file_been_processed(ledger, c.src)
       /\ (LeavesGroup /\ PartialGroup)
          => \A i \in 1..Len(paths) :
                IF get_sql_safe_filename(paths[i]) \in Filenames(snap.ledger)
                  THEN paths[i] \notin copied'
                ELSE IF ResolveDate(tree, potential_dates, paths[i]) = None
                  THEN paths[i] \notin copied'
                ELSE /\ paths[i] \in copied'
                     /\ has_file_been_processed(ledger', paths[i])]_vars

\* the same, but for the members whose 99 candidate names are all taken
PartialGroupWithFreeNames ==
    [][/\ (pc = "groups" /\ remaining' # remaining /\ ~Terminated)
          => \A stem \in remaining \ remaining' :
                (pc' = "groups") <=>
                \A i \in 1..Len(filenames[stem]) :
                    has_file_been_processed(ledger, filenames[stem][i])
       /\ (last_copy' # last_copy /\ last_copy' # None)
          => \A c \in last_copy' : ~has_file_been_processed(ledger, c.src)
       /\ (LeavesGroup /\ PartialGroup)
          => \A i \in 1..Len(paths) :
                IF get_sql_safe_filename(paths[i]) \in Filenames(snap.ledger)
                  THEN paths[i] \notin copied'
                ELSE IF ResolveDate(tree, potential_dates, paths[i]) = None
                  THEN paths[i] \notin copied'
                ELSE \/ /\ paths[i] \in copied'
                        /\ has_file_been_processed(ledger', paths[i])
                     \/ AllNamesTaken(paths[i],
                            Unwrap(ResolveDate(tree, potential_dates, paths[i])))]_vars

\* a live rebase has just reported its row count, and the last rebase in
\* test mode was given the same two roots and found the same rows
DryThenLive ==
    /\ RebasedLive
    /\ dry # None
    /\ Unwrap(dry).ledger = snap.ledger
    /\ Unwrap(dry).original_file_root = Unwrap(report).original_file_root
    /\ Unwrap(dry).destination_file_root = Unwrap(report).destination_file_root

\* C18: the row count a rebase in test mode reports is the row count a live
\* rebase with the same roots on the same rows reports as affected.
C18_RebaseDryRunAgrees ==
    DryThenLive => Unwrap(report).rows = Unwrap(dry).rows

\* C18 witness: both rebases reported one row of two, for a root that the
\* row's filename matches only when letter case is ignored.
C18_Witness ==
    /\ DryThenLive
    /\ Len(snap.ledger) = 2
    /\ Unwrap(dry).rows = 1
    /\ Unwrap(report).rows = 1
    /\ \A i \in 1..Len(snap.ledger) :
          ~starts_with(snap.ledger[i][1], NormalizeRoot(Unwrap(report).original_file_root))

\* the filename row i would hold after the UPDATE of a rebase with the roots
\* of the process at hand
Rebased(i) ==
    IF RowMatches(ledger[i], NormalizeRoot(args.original_file_root))
      THEN replace(ledger[i][1], NormalizeRoot(args.original_file_root),
                   NormalizeRoot(args.destination_file_root))
      ELSE ledger[i][1]

\* the live rebase at hand would rewrite a row to the filename of another row
WouldBreakUniqueness ==
    /\ pc = "rebase_exec"
    /\ ~args.test_mode
    /\ \E i, j \in 1..Len(ledger) :
          /\ i # j
          /\ RowMatches(ledger[i], NormalizeRoot(args.original_file_root))
          /\ Rebased(i) = Rebased(j)

\* C19: a live rebase that would rewrite a row to a filename another row
\* holds, or two rows to one filename, ends in an error and leaves every row
\* of the ledger as it was.
C19_RebaseCollisionRollsBack ==
    [][(WouldBreakUniqueness /\ ~Terminated)
       => /\ pc' = "idle"
          /\ last'.outcome = "db_error"
          /\ ledger' = ledger]_vars

\* the same for the databases that have the index unique_paths
RebaseCollisionWithIndex ==
    [][(WouldBreakUniqueness /\ db_index /\ ~Terminated)
       => /\ pc' = "idle"
          /\ last'.outcome = "db_error"
          /\ ledger' = ledger]_vars

====
